---- MODULE Spec2Model ----
(***************************************************************************)
(* A model of the toolbartender planning core (src/src/planner.py) and of  *)
(* the tool layer that calls it (src/src/main.py).                         *)
(*                                                                         *)
(* Text.  A Python str is modelled as a sequence of characters.  TLA+      *)
(* strings hold ASCII only, so each Hangul syllable is written by an       *)
(* upper-case romanisation of two or more letters ("PAN" is U+D310), and   *)
(* the few other non-ASCII or control characters by a name ("ARROW" is     *)
(* U+2192, "LF" is the line feed).  An ASCII character is itself.          *)
(* A regular expression is modelled by a matcher that follows Python's     *)
(* re semantics for that pattern: leftmost match, greedy or lazy           *)
(* quantifiers with backtracking, \b, \s, \d and "." as Python defines     *)
(* them on the characters of the model's alphabet.                         *)
(*                                                                         *)
(* Optional values.  Python's None is the empty tuple and a present value  *)
(* v is the one-element tuple <<v>>, so that None and the empty string     *)
(* <<>> inside Some(<<>>) stay different, as they are in Python.           *)
(***************************************************************************)
EXTENDS Integers, Sequences, FiniteSets, TLC

VARIABLES
    goal,                   \* the goal text of the request
    available_tools,        \* the available_tools argument (None and [] alike: the empty set)
    strict_available_tools, \* the strict_available_tools argument
    plan,                   \* the Plan create_plan returned, or None
    parsed,                 \* the dict parse_goal returned, or None
    intent,                 \* the tag _classify_intent returned, or None
    hhmm,                   \* what _infer_hhmm returned, wrapped: None before the call
    route,                  \* what _infer_route returned, wrapped: None before the call
    enabled_tools,          \* the available_tools argument of tb_plan_validate and
                            \* tb_plan_render_prompt (None and [] alike: the empty set)
    validation,             \* what tb_plan_validate returned, or None
    rendering               \* what tb_plan_render_prompt returned, or None

vars == <<goal, available_tools, strict_available_tools, plan, parsed, intent,
          hhmm, route, enabled_tools, validation, rendering>>

None == <<>>
Some(v) == <<v>>
Get(o) == o[1]

(***************************************************************************)
(* Characters and character classes                                        *)
(***************************************************************************)
DigitChars == <<"0", "1", "2", "3", "4", "5", "6", "7", "8", "9">>

Digits == {DigitChars[i] : i \in 1..10}

\* Python's \s on the model's alphabet
Whitespace == {" ", "TAB", "LF", "CR"}

AsciiLetters == {"a", "b", "c", "d", "e", "f", "g", "h", "i", "j", "k", "l", "m",
                 "n", "o", "p", "q", "r", "s", "t", "u", "v", "w", "x", "y", "z"}

Hangul == {"CHWI", "SO", "SAK", "JE", "IL", "JEONG", "SEU", "KE", "JUL", "MI",
           "TING", "HOE", "UI", "BYEON", "GYEONG", "SU", "OLM", "GYEO", "JAE",
           "JO", "JAB", "AH", "DEUNG", "ROK", "CHU", "GA", "SAENG", "SEONG",
           "EH", "SEO", "KKA", "JI", "EU", "RO", "YI", "DONG", "NEUN", "YA",
           "NON", "MUN", "GEOM", "SAEK", "CHI", "CHAJ", "YO", "YAK", "NYU",
           "BUN", "SEOK", "RI", "KA", "TOK", "OH", "BO", "NAE", "NEUL",
           "JEON", "HU", "SI", "JEO", "NYEOK", "BAM", "MOK", "PAN", "GYO",
           "GANG", "NAM", "TIM", "GIL", "JWO", "HAE"}

\* Python's \w (str patterns are Unicode-aware: Hangul syllables are word characters)
WordChars == Digits \cup AsciiLetters \cup Hangul \cup {"_"}

\* "." without re.DOTALL: anything but a line feed
IsDot(c) == c # "LF"

Min(S) == CHOOSE x \in S : \A y \in S : x <= y

Max(S) == CHOOSE x \in S : \A y \in S : x >= y

\* int() of one decimal digit
DigitVal(c) == (CHOOSE i \in 1..10 : DigitChars[i] = c) - 1

\* int() of a run of decimal digits
RECURSIVE ToInt(_)
ToInt(ds) ==
    IF ds = <<>> THEN 0
    ELSE 10 * ToInt(SubSeq(ds, 1, Len(ds) - 1)) + DigitVal(ds[Len(ds)])

\* str(n) for n >= 0
RECURSIVE DecimalDigits(_)
DecimalDigits(n) ==
    IF n < 10 THEN <<DigitChars[n + 1]>>
    ELSE Append(DecimalDigits(n \div 10), DigitChars[(n % 10) + 1])

\* format(n, "02d") for n >= 0
Pad2(n) == IF n < 10 THEN <<"0">> \o DecimalDigits(n) ELSE DecimalDigits(n)

\* str.strip()
Strip(s) ==
    LET keep == {i \in 1..Len(s) : s[i] \notin Whitespace}
    IN  IF keep = {} THEN <<>> ELSE SubSeq(s, Min(keep), Max(keep))

\* k occurs in s at index i
MatchAt(s, i, k) ==
    /\ i >= 1
    /\ i + Len(k) - 1 <= Len(s)
    /\ \A j \in 1..Len(k) : s[i + j - 1] = k[j]

\* Python's  k in s
Contains(s, k) == \E i \in 1..Len(s) : MatchAt(s, i, k)

ContainsAny(s, ks) == \E k \in ks : Contains(s, k)

\* \b at the gap before index i (i = Len(s) + 1: the end of s)
WordBoundary(s, i) ==
    LET before == i > 1 /\ s[i - 1] \in WordChars
        after == i <= Len(s) /\ s[i] \in WordChars
    IN  before # after

\* every character of s[i..j] is in class cls
AllIn(s, i, j, cls) == i >= 1 /\ j <= Len(s) /\ \A p \in i..j : s[p] \in cls

\* the index after a greedy \s* that starts at index i
SkipSpaces(s, i) ==
    Min({j \in i..(Len(s) + 1) : j = Len(s) + 1 \/ s[j] \notin Whitespace})

(***************************************************************************)
(* 1) intent heuristics                                                    *)
(***************************************************************************)
CancelWords == {<<"CHWI", "SO">>, <<"SAK", "JE">>}

ScheduleNouns == {<<"IL", "JEONG">>, <<"SEU", "KE", "JUL">>, <<"MI", "TING">>,
                  <<"HOE", "UI">>}

UpdateWords == {<<"BYEON", "GYEONG">>, <<"SU", "JEONG">>, <<"OLM", "GYEO">>,
                <<"JAE", "JO", "JEONG">>}

CreateWords == {<<"JAB", "AH">>, <<"DEUNG", "ROK">>, <<"CHU", "GA">>,
                <<"SAENG", "SEONG">>}

RouteWords == {<<"EH", "SEO">>, <<"KKA", "JI">>, <<"EU", "RO">>, <<"ARROW">>,
               <<"-", ">">>, <<"YI", "DONG">>, <<"GA", "NEUN">>, <<"GA", "YA">>}

PaperWord == <<"NON", "MUN">>

PaperActions == {<<"GEOM", "SAEK">>, <<"SEO", "CHI">>, <<"CHAJ", "AH">>,
                 <<"YO", "YAK">>}

NewsWord == <<"NYU", "SEU">>

NewsActions == {<<"BUN", "SEOK">>, <<"YO", "YAK">>, <<"JEONG", "RI">>}

NewsTargets == {<<"KA", "TOK">>, <<"KA", "KA", "OH">>, <<"BO", "NAE">>}

IsCancel(g) == ContainsAny(g, CancelWords) /\ ContainsAny(g, ScheduleNouns)

IsUpdate(g) == ContainsAny(g, UpdateWords) /\ ContainsAny(g, ScheduleNouns)

IsCreate(g) == ContainsAny(g, CreateWords) /\ ContainsAny(g, ScheduleNouns)

IsRoute(g) == ContainsAny(g, RouteWords)

IsPaper(g) == Contains(g, PaperWord) /\ ContainsAny(g, PaperActions)

IsNews(g) ==
    /\ Contains(g, NewsWord)
    /\ ContainsAny(g, NewsActions)
    /\ ContainsAny(g, NewsTargets)

\* the slip of testing the update rule before the cancel rule
_classify_intent_UpdateFirst(goal_) ==
    LET g == Strip(goal_)
    IN  IF IsUpdate(g) THEN "schedule_update"
        ELSE IF IsCancel(g) THEN "schedule_cancel"
        ELSE IF IsCreate(g) THEN "schedule_create"
        ELSE IF IsRoute(g) THEN "route"
        ELSE IF IsPaper(g) THEN "paper_search_summarize_email"
        ELSE IF IsNews(g) THEN "news_analyze_kakao_send"
        ELSE "unknown"

_classify_intent(goal_) ==
    LET g == Strip(goal_)
    IN  IF IsCancel(g) THEN "schedule_cancel"
        ELSE IF IsUpdate(g) THEN "schedule_update"
        ELSE IF IsCreate(g) THEN "schedule_create"
        ELSE IF IsRoute(g) THEN "route"
        ELSE IF IsPaper(g) THEN "paper_search_summarize_email"
        ELSE IF IsNews(g) THEN "news_analyze_kakao_send"
        ELSE "unknown"

(***************************************************************************)
(* 2) slot extractors                                                      *)
(***************************************************************************)
TODAY == <<"t", "o", "d", "a", "y">>

TOMORROW == <<"t", "o", "m", "o", "r", "r", "o", "w">>

UNKNOWN == <<"u", "n", "k", "n", "o", "w", "n">>

\* \b(20\d{2})-(\d{2})-(\d{2})\b matches s[i..i+9]
IsoDateAt(s, i) ==
    /\ i + 9 <= Len(s)
    /\ WordBoundary(s, i)
    /\ s[i] = "2" /\ s[i + 1] = "0"
    /\ AllIn(s, i + 2, i + 3, Digits)
    /\ s[i + 4] = "-"
    /\ AllIn(s, i + 5, i + 6, Digits)
    /\ s[i + 7] = "-"
    /\ AllIn(s, i + 8, i + 9, Digits)
    /\ WordBoundary(s, i + 10)

_infer_date_token(goal_) ==
    LET starts == {i \in 1..Len(goal_) : IsoDateAt(goal_, i)}
    IN  IF starts # {} THEN SubSeq(goal_, Min(starts), Min(starts) + 9)
        ELSE IF Contains(goal_, <<"OH", "NEUL">>) THEN TODAY
        ELSE IF Contains(goal_, <<"NAE", "IL">>) THEN TOMORROW
        ELSE UNKNOWN

\* the lengths n of \d{1,2} with which \b(\d{1,2}):(\d{2})\b matches at index i
ClockLens(s, i) ==
    {n \in 1..2 :
        /\ WordBoundary(s, i)
        /\ AllIn(s, i, i + n - 1, Digits)
        /\ i + n <= Len(s) /\ s[i + n] = ":"
        /\ AllIn(s, i + n + 1, i + n + 2, Digits)
        /\ WordBoundary(s, i + n + 3)}

\* re.search(r"\b(\d{1,2}):(\d{2})\b", s): None, or <<int(group 1), int(group 2)>>
ClockSearch(s) ==
    LET starts == {i \in 1..Len(s) : ClockLens(s, i) # {}}
    IN  IF starts = {} THEN None
        ELSE LET i == Min(starts)
                 n == Max(ClockLens(s, i))
             IN  Some(<<ToInt(SubSeq(s, i, i + n - 1)),
                        ToInt(SubSeq(s, i + n + 1, i + n + 2))>>)

\* the lengths n with which (\d{1,2})c matches at index i
NumberLens(s, i, c) ==
    {n \in 1..2 : AllIn(s, i, i + n - 1, Digits) /\ i + n <= Len(s) /\ s[i + n] = c}

\* (m)\s*(\d{1,2})SI(?:\s*(\d{1,2})BUN)? matches at index i with marker m
MarkedHourAt(s, i, m) ==
    MatchAt(s, i, m) /\ NumberLens(s, SkipSpaces(s, i + Len(m)), "SI") # {}

\* the groups of that match: <<marker, int(hour), int(minute or 0)>>
MarkedHourGroups(s, i, m) ==
    LET h == SkipSpaces(s, i + Len(m))
        hn == Max(NumberLens(s, h, "SI"))
        q == SkipSpaces(s, h + hn + 1)
        qn == NumberLens(s, q, "BUN")
    IN  <<m, ToInt(SubSeq(s, h, h + hn - 1)),
          IF qn = {} THEN 0 ELSE ToInt(SubSeq(s, q, q + Max(qn) - 1))>>

\* re.search of the marked-hour pattern over the alternation ms
MarkedHourSearch(s, ms) ==
    LET starts == {i \in 1..Len(s) : \E m \in ms : MarkedHourAt(s, i, m)}
    IN  IF starts = {} THEN None
        ELSE LET i == Min(starts)
                 m == CHOOSE k \in ms : MarkedHourAt(s, i, k)
             IN  Some(MarkedHourGroups(s, i, m))

AM == <<"OH", "JEON">>

PM == <<"OH", "HU">>

EVENING == <<"JEO", "NYEOK">>

NIGHT == <<"BAM">>

\* the slip of validating the hour only
HhmmInRange_HourOnly(hh, mm) == 0 <= hh /\ hh <= 23

\* if 0 <= hh <= 23 and 0 <= mm <= 59
HhmmInRange(hh, mm) == 0 <= hh /\ hh <= 23 /\ 0 <= mm /\ mm <= 59

\* f"{hh:02d}:{mm:02d}"
FormatHhmm(hh, mm) == Pad2(hh) \o <<":">> \o Pad2(mm)

\* the hour after the AM/PM normalisation
AmPmHour(ampm, hh) ==
    IF ampm = PM /\ hh < 12 THEN hh + 12
    ELSE IF ampm = AM /\ hh = 12 THEN 0
    ELSE hh

\* the hour after the evening/night normalisation
EveningHour(hh) == IF hh < 12 THEN hh + 12 ELSE hh

_infer_hhmm(goal_) ==
    LET g == Strip(goal_)
        m1 == ClockSearch(g)
        m2 == MarkedHourSearch(g, {AM, PM})
        m3 == MarkedHourSearch(g, {EVENING, NIGHT})
        ok1 == m1 # None /\ HhmmInRange(Get(m1)[1], Get(m1)[2])
        hh2 == AmPmHour(Get(m2)[1], Get(m2)[2])
        ok2 == m2 # None /\ HhmmInRange(hh2, Get(m2)[3])
        hh3 == EveningHour(Get(m3)[2])
        ok3 == m3 # None /\ HhmmInRange(hh3, Get(m3)[3])
    IN  IF ok1 THEN Some(FormatHhmm(Get(m1)[1], Get(m1)[2]))
        ELSE IF ok2 THEN Some(FormatHhmm(hh2, Get(m2)[3]))
        ELSE IF ok3 THEN Some(FormatHhmm(hh3, Get(m3)[3]))
        ELSE None

FROM == <<"EH", "SEO">>

TO_MARKS == {<<"EU", "RO">>, <<"KKA", "JI">>}

\* every character of s[i..j] is matched by "."
AllDot(s, i, j) == i >= 1 /\ j <= Len(s) /\ \A p \in i..j : IsDot(s[p])

\* the lengths n of the lazy (.+?) at index p that (?:EURO|KKAJI) can follow
ToLens(s, p) ==
    {n \in 1..(Len(s) - p) :
        (\E t \in TO_MARKS : MatchAt(s, p + n, t)) /\ AllDot(s, p, p + n - 1)}

\* the lengths k of \s* at index j after which (.+?)(?:EURO|KKAJI) matches
ToSpaceLens(s, j) ==
    {k \in 0..(Len(s) - j) :
        AllIn(s, j, j + k - 1, Whitespace) /\ ToLens(s, j + k) # {}}

\* the lengths n of the lazy (.+?) at index i with which the whole of
\* (.+?)EHSEO\s*(.+?)(?:EURO|KKAJI) matches
FromLens(s, i) ==
    {n \in 1..(Len(s) - i) :
        /\ MatchAt(s, i + n, FROM)
        /\ AllDot(s, i, i + n - 1)
        /\ ToSpaceLens(s, i + n + 2) # {}}

\* the groups of the match at index i whose group 1 has length n: the longest
\* \s*, then the shortest group 2
FromToGroups(s, i, n) ==
    LET j == i + n + 2
        k == Max(ToSpaceLens(s, j))
        m == Min(ToLens(s, j + k))
    IN  <<SubSeq(s, i, i + n - 1), SubSeq(s, j + k, j + k + m - 1), j + k + m + 2>>

\* the match at index i as the backtracking matcher finds it: the shortest
\* group 1, then the longest \s*, then the shortest group 2;
\* <<group 1, group 2, index after the match>>
FromToMatch(s, i) == FromToGroups(s, i, Min(FromLens(s, i)))

RECURSIVE FromToFindAll(_, _)

\* the match m, then the matches after it
FromToCollect(s, m) == <<<<m[1], m[2]>>>> \o FromToFindAll(s, m[3])

\* re.findall(r"(.+?)EHSEO\s*(.+?)(?:EURO|KKAJI)", s) from index pos on: the
\* non-overlapping matches, left to right, as <<group 1, group 2>>
FromToFindAll(s, pos) ==
    LET starts == {i \in pos..Len(s) : FromLens(s, i) # {}}
    IN  IF starts = {} THEN <<>> ELSE FromToCollect(s, FromToMatch(s, Min(starts)))

\* the length of (?:->|ARROW) at index a, 0 when neither matches
ArrowLen(s, a) ==
    IF MatchAt(s, a, <<"-", ">">>) THEN 2
    ELSE IF MatchAt(s, a, <<"ARROW">>) THEN 1
    ELSE 0

\* the lengths k of the \s* after the arrow, at index j, after which (.+) matches
ArrowToSpaceLens(s, j) ==
    {k \in 0..(Len(s) - j) :
        AllIn(s, j, j + k - 1, Whitespace) /\ IsDot(s[j + k])}

\* the lengths k of the \s* before the arrow, at index j, with which the rest matches
ArrowFromSpaceLens(s, j) ==
    {k \in 0..(Len(s) - j) :
        /\ ArrowLen(s, j + k) > 0
        /\ AllIn(s, j, j + k - 1, Whitespace)
        /\ ArrowToSpaceLens(s, j + k + ArrowLen(s, j + k)) # {}}

\* the lengths n of the lazy (.+?) at index i with which (.+?)\s*(?:->|ARROW)\s*(.+) matches
ArrowFromLens(s, i) ==
    {n \in 1..(Len(s) - i) :
        AllDot(s, i, i + n - 1) /\ ArrowFromSpaceLens(s, i + n) # {}}

\* the groups of the match whose group 1 is s[i..i+n-1] and whose arrow is at
\* index a: the longest \s* after the arrow, then the longest group 2
ArrowGroups(s, i, n, a) ==
    LET j == a + ArrowLen(s, a)
        p == j + Max(ArrowToSpaceLens(s, j))
    IN  <<SubSeq(s, i, i + n - 1), SubSeq(s, p, Max({q \in p..Len(s) : AllDot(s, p, q)}))>>

\* group 1 has length n: the longest \s* before the arrow
ArrowGroup1(s, i, n) == ArrowGroups(s, i, n, i + n + Max(ArrowFromSpaceLens(s, i + n)))

\* the match at index i as the backtracking matcher finds it: the shortest group 1
ArrowMatch(s, i) == ArrowGroup1(s, i, Min(ArrowFromLens(s, i)))

\* re.search(r"(.+?)\s*(?:->|ARROW)\s*(.+)", s): None, or <<group 1, group 2>>
ArrowSearch(s) ==
    LET starts == {i \in 1..Len(s) : ArrowFromLens(s, i) # {}}
    IN  IF ~Contains(s, <<"-", ">">>) /\ ~Contains(s, <<"ARROW">>) THEN None
        ELSE IF starts = {} THEN None
        ELSE Some(ArrowMatch(s, Min(starts)))

\* the match findall's result list ends with: m_list[-1]
LastMatch(m_list) == m_list[Len(m_list)]

\* what is returned when findall returned m_list and the arrow search m
RouteOf(m_list, m) ==
    IF m_list # <<>>
    THEN <<Some(Strip(LastMatch(m_list)[1])), Some(Strip(LastMatch(m_list)[2]))>>
    ELSE IF m # None
    THEN <<Some(Strip(Get(m)[1])), Some(Strip(Get(m)[2]))>>
    ELSE <<None, None>>

\* returns <<origin, destination>>, each None or Some(text)
_infer_route(goal_) == RouteOf(FromToFindAll(Strip(goal_), 1), ArrowSearch(Strip(goal_)))

LocalChars == AsciiLetters \cup Digits \cup {".", "_", "%", "+", "-"}

DomainChars == AsciiLetters \cup Digits \cup {".", "-"}

\* the index after the longest run of characters of class cls that starts at index i
RunEnd(s, i, cls) ==
    Min({j \in i..(Len(s) + 1) : j = Len(s) + 1 \/ s[j] \notin cls})

\* the lengths n of [A-Za-z0-9.-]+ at index d that \.[A-Za-z]{2,} can follow
DomainLens(s, d) ==
    {n \in 1..Len(s) :
        /\ AllIn(s, d, d + n - 1, DomainChars)
        /\ d + n <= Len(s) /\ s[d + n] = "."
        /\ AllIn(s, d + n + 1, d + n + 2, AsciiLetters)}

\* the address pattern matches at index i
EmailAt(s, i) ==
    LET a == RunEnd(s, i, LocalChars)
    IN  a > i /\ a <= Len(s) /\ s[a] = "@" /\ DomainLens(s, a + 1) # {}

\* returns None or Some(address)
_infer_email(goal_) ==
    LET starts == {i \in 1..Len(goal_) : EmailAt(goal_, i)}
    IN  IF starts = {} THEN None
        ELSE LET i == Min(starts)
                 d == RunEnd(goal_, i, LocalChars) + 1
                 n == Max(DomainLens(goal_, d))
             IN  Some(SubSeq(goal_, i, RunEnd(goal_, d + n + 1, AsciiLetters) - 1))

TITLE_MARK == <<"JE", "MOK">>

QuoteChars == {"DQUOTE", "LDQUO", "RDQUO", "'"}

TitleMinLen == 2

TitleMaxLen == 50

\* [^,\n]
IsTitleChar(c) == c \notin {",", "LF"}

\* the lengths k of the \s* after [:=], at index j, after which ([^,\n]+) matches
TitleSpaceLens(s, j) ==
    {k \in 0..Len(s) :
        AllIn(s, j, j + k - 1, Whitespace) /\ j + k <= Len(s) /\ IsTitleChar(s[j + k])}

\* JEMOK\s*[:=]\s*([^,\n]+) matches at index i
TitleMarkAt(s, i) ==
    LET c == SkipSpaces(s, i + 2)
    IN  /\ MatchAt(s, i, TITLE_MARK)
        /\ c <= Len(s) /\ s[c] \in {":", "="}
        /\ TitleSpaceLens(s, c + 1) # {}

\* the inner lengths n with which [quote]([^\n\r\t]{2,50})[quote] matches at index i
QuotedLens(s, i) ==
    {n \in TitleMinLen..TitleMaxLen :
        /\ s[i] \in QuoteChars
        /\ i + n + 1 <= Len(s)
        /\ \A p \in (i + 1)..(i + n) : s[p] \notin {"LF", "CR", "TAB"}
        /\ s[i + n + 1] \in QuoteChars}

\* returns None or Some(title)
_infer_title(goal_) ==
    LET marks == {i \in 1..Len(goal_) : TitleMarkAt(goal_, i)}
        quotes == {i \in 1..Len(goal_) : QuotedLens(goal_, i) # {}}
    IN  IF marks # {}
        THEN LET c == SkipSpaces(goal_, Min(marks) + 2)
                 p == c + 1 + Max(TitleSpaceLens(goal_, c + 1))
                 e == Max({q \in p..Len(goal_) : \A r \in p..q : IsTitleChar(goal_[r])})
             IN  Some(Strip(SubSeq(goal_, p, e)))
        ELSE IF quotes # {}
        THEN LET i == Min(quotes)
             IN  Some(Strip(SubSeq(goal_, i + 1, i + Max(QuotedLens(goal_, i)))))
        ELSE None

(***************************************************************************)
(* 2.5) Parse API                                                          *)
(***************************************************************************)
\* Python's truth value of an Optional[str]: None and "" are false
Truthy(o) == o # None /\ Get(o) # <<>>

NOTE_ROUTE == "route endpoints not parsed"

NOTE_TIME == "time (hh:mm) not parsed"

IsScheduleIntent(t) == t \in {"schedule_create", "schedule_update", "schedule_cancel"}

parse_goal(goal_) ==
    LET intent_type == _classify_intent(goal_)
        time_hhmm == _infer_hhmm(goal_)
        od == _infer_route(goal_)
        n1 == IF intent_type = "route" /\ (~Truthy(od[1]) \/ ~Truthy(od[2]))
              THEN <<NOTE_ROUTE>> ELSE <<>>
        n2 == IF IsScheduleIntent(intent_type) /\ ~Truthy(time_hhmm)
              THEN <<NOTE_TIME>> ELSE <<>>
    IN  [intent_type |-> intent_type,
         date_token |-> _infer_date_token(goal_),
         time_hhmm |-> time_hhmm,
         origin |-> od[1],
         destination |-> od[2],
         title |-> _infer_title(goal_),
         email |-> _infer_email(goal_),
         notes |-> n1 \o n2]

(***************************************************************************)
(* 3) Plan builder.  A tool name is the sequence of its dotted components  *)
(* ("calendar.read" is <<"calendar", "read">>), a step id "step-N" is      *)
(* <<"step-", N>>, and each message is named by an English gloss.          *)
(***************************************************************************)
CALENDAR_READ == <<"calendar", "read">>

CALENDAR_CREATE == <<"calendar", "create">>

MAP_ROUTE == <<"map", "route">>

PAPER_SEARCH == <<"paper", "search">>

PAPER_SUMMARIZE == <<"paper", "summarize">>

EMAIL_SEND == <<"email", "send">>

NEWS_SEARCH == <<"news", "search">>

NEWS_SUMMARIZE == <<"news", "summarize">>

KAKAO_SEND == <<"kakao", "send">>

WriteSuffixes == {"create", "write", "update", "delete", "send"}

\* the slip of leaving ".send" out of the suffixes
_is_write_like_NoSend(tool_name) ==
    Len(tool_name) >= 2 /\ tool_name[Len(tool_name)] \in WriteSuffixes \ {"send"}

\* tool_name.endswith((".create", ".write", ".update", ".delete", ".send"))
_is_write_like(tool_name) ==
    Len(tool_name) >= 2 /\ tool_name[Len(tool_name)] \in WriteSuffixes

MSG_CONFIRM_POLICY == "create/update/delete/send run after user confirmation"

MSG_NO_AVAILABLE_TOOLS == "available_tools not given: steps may use assumed tools"

MSG_TITLE == "schedule title not parsed"

MSG_UPDATE_EVENT_REF == "schedule_update needs event_ref and changes"

MSG_CANCEL_EVENT_REF == "schedule_cancel needs event_ref or title"

MSG_EMAIL == "recipient email (to_email) not found"

MSG_PAPER_QUERY == "state the paper query in the goal"

MSG_NEWS_TOPIC == "state the news topic and the target in the goal"

MSG_UNKNOWN_INTENT == "intent not classified"

EXECUTION_HINT ==
    "Execute steps sequentially using tool_name and args as-is. Summarize each step result."

\* f"step-{n}"
StepId(n) == <<"step-", n>>

PlanStep(n, tool_name, args) ==
    [step_id |-> StepId(n), tool_name |-> tool_name, args |-> args]

\* the slip of numbering the second step "step-2" whatever came before it
NextStepId_Fixed(steps) == 2

\* f"step-{len(steps)+1}": the number of the step appended after steps
NextStepId(steps) == Len(steps) + 1

\* the slip of never filtering
allow_Always(tool_name, avail, strict) == TRUE

\* the slip of filtering in strict mode even with no available_tools given
allow_StrictOnEmpty(tool_name, avail, strict) ==
    IF strict THEN tool_name \in avail ELSE TRUE

\* strict mode applies only when available_tools is not empty
allow(tool_name, avail, strict) ==
    IF strict /\ avail # {} THEN tool_name \in avail ELSE TRUE

\* the optional calendar.read step that opens the route and schedule_create plans
CalendarReadStep(goal_, avail, strict) ==
    IF allow(CALENDAR_READ, avail, strict)
    THEN <<PlanStep(1, CALENDAR_READ, [date |-> _infer_date_token(goal_)])>>
    ELSE <<>>

RouteArgs(frm, to, hhmm_) ==
    IF Truthy(hhmm_)
    THEN [from |-> Get(frm), to |-> Get(to), depart_time |-> Get(hhmm_)]
    ELSE [from |-> Get(frm), to |-> Get(to)]

\* each branch returns <<steps, the assumptions it appends>>
RouteBranch(goal_, avail, strict) ==
    LET ft == _infer_route(goal_)
        s1 == CalendarReadStep(goal_, avail, strict)
        s2 == IF allow(MAP_ROUTE, avail, strict)
              THEN Append(s1, PlanStep(NextStepId(s1), MAP_ROUTE,
                                       RouteArgs(ft[1], ft[2], _infer_hhmm(goal_))))
              ELSE s1
    IN  IF ~Truthy(ft[1]) \/ ~Truthy(ft[2]) THEN <<<<>>, <<NOTE_ROUTE>>>>
        ELSE <<s2, <<>>>>

ScheduleCreateBranch(goal_, avail, strict) ==
    LET title == _infer_title(goal_)
        hhmm_ == _infer_hhmm(goal_)
        s1 == CalendarReadStep(goal_, avail, strict)
        s2 == IF allow(CALENDAR_CREATE, avail, strict)
              THEN Append(s1, PlanStep(NextStepId(s1), CALENDAR_CREATE,
                                       [title |-> Get(title),
                                        date |-> _infer_date_token(goal_),
                                        time |-> Get(hhmm_)]))
              ELSE s1
    IN  <<IF Truthy(title) /\ Truthy(hhmm_) THEN s2 ELSE <<>>,
          (IF ~Truthy(title) THEN <<MSG_TITLE>> ELSE <<>>)
              \o (IF ~Truthy(hhmm_) THEN <<NOTE_TIME>> ELSE <<>>)>>

PaperBranch(goal_, avail, strict) ==
    LET to_email == _infer_email(goal_)
    IN  <<IF /\ Truthy(to_email)
             /\ allow(PAPER_SEARCH, avail, strict)
             /\ allow(PAPER_SUMMARIZE, avail, strict)
             /\ allow(EMAIL_SEND, avail, strict)
          THEN <<PlanStep(1, PAPER_SEARCH, [query |-> goal_]),
                 PlanStep(2, PAPER_SUMMARIZE, [query |-> goal_]),
                 PlanStep(3, EMAIL_SEND, [to |-> Get(to_email)])>>
          ELSE <<>>,
          (IF ~Truthy(to_email) THEN <<MSG_EMAIL>> ELSE <<>>) \o <<MSG_PAPER_QUERY>>>>

\* the slip of gating each step of the chain on its own tool, as the route branch does
NewsBranch_PerStep(goal_, avail, strict) ==
    LET s1 == IF allow(NEWS_SEARCH, avail, strict)
              THEN <<PlanStep(1, NEWS_SEARCH, [topic |-> goal_])>> ELSE <<>>
        s2 == IF allow(NEWS_SUMMARIZE, avail, strict)
              THEN Append(s1, PlanStep(Len(s1) + 1, NEWS_SUMMARIZE, [topic |-> goal_]))
              ELSE s1
        s3 == IF allow(KAKAO_SEND, avail, strict)
              THEN Append(s2, PlanStep(Len(s2) + 1, KAKAO_SEND, [target |-> "me"]))
              ELSE s2
    IN  <<s3, <<MSG_NEWS_TOPIC>>>>

NewsBranch(goal_, avail, strict) ==
    <<IF /\ allow(NEWS_SEARCH, avail, strict)
         /\ allow(NEWS_SUMMARIZE, avail, strict)
         /\ allow(KAKAO_SEND, avail, strict)
      THEN <<PlanStep(1, NEWS_SEARCH, [topic |-> goal_]),
             PlanStep(2, NEWS_SUMMARIZE, [topic |-> goal_]),
             PlanStep(3, KAKAO_SEND, [target |-> "me"])>>
      ELSE <<>>,
      <<MSG_NEWS_TOPIC>>>>

\* the slip of emitting an update step without an event to update
ScheduleUpdateBranch_Emits(goal_, avail, strict) ==
    <<<<PlanStep(1, <<"calendar", "update">>, [date |-> _infer_date_token(goal_)])>>,
      <<MSG_UPDATE_EVENT_REF>>>>

\* no steps: the branch only asks for the event to change
ScheduleUpdateBranch(goal_, avail, strict) == <<<<>>, <<MSG_UPDATE_EVENT_REF>>>>

\* no steps: the branch only asks for the event to cancel
ScheduleCancelBranch(goal_, avail, strict) == <<<<>>, <<MSG_CANCEL_EVENT_REF>>>>

IntentBranch(intent_type, goal_, avail, strict) ==
    IF intent_type = "route" THEN RouteBranch(goal_, avail, strict)
    ELSE IF intent_type = "schedule_create" THEN ScheduleCreateBranch(goal_, avail, strict)
    ELSE IF intent_type = "schedule_update" THEN ScheduleUpdateBranch(goal_, avail, strict)
    ELSE IF intent_type = "schedule_cancel" THEN ScheduleCancelBranch(goal_, avail, strict)
    ELSE IF intent_type = "paper_search_summarize_email" THEN PaperBranch(goal_, avail, strict)
    ELSE IF intent_type = "news_analyze_kakao_send" THEN NewsBranch(goal_, avail, strict)
    ELSE <<<<>>, <<MSG_UNKNOWN_INTENT>>>>

\* f"{s.tool_name} requires user confirmation"
Confirmation(tool_name) == <<tool_name, "requires user confirmation">>

RECURSIVE RequiredConfirmations(_)
RequiredConfirmations(steps) ==
    IF steps = <<>> THEN <<>>
    ELSE (IF _is_write_like(Head(steps).tool_name)
          THEN <<Confirmation(Head(steps).tool_name)>> ELSE <<>>)
         \o RequiredConfirmations(Tail(steps))

\* plan_id is the uuid the call drew
create_plan(goal_, avail, strict, plan_id) ==
    LET branch == IntentBranch(_classify_intent(goal_), goal_, avail, strict)
    IN  [plan_id |-> plan_id,
         intent |-> goal_,
         steps |-> branch[1],
         assumptions |-> <<MSG_CONFIRM_POLICY>>
                         \o (IF avail = {} THEN <<MSG_NO_AVAILABLE_TOOLS>> ELSE <<>>)
                         \o branch[2],
         required_confirmations |-> RequiredConfirmations(branch[1]),
         execution_hint |-> EXECUTION_HINT]

(***************************************************************************)
(* Requests: the inputs of a call are drawn in the initial state, and each *)
(* action is one call of a function of the planning core.                  *)
(***************************************************************************)
RECURSIVE Concat(_)
Concat(parts) == IF parts = <<>> THEN <<>> ELSE Head(parts) \o Concat(Tail(parts))

\* the texts made of at most max fragments of pool
TextsOf(pool, max) == {Concat(fs) : fs \in UNION {[1..n -> pool] : n \in 0..max}}

MaxIntentFrags == 4

MaxTimeFrags == 4

MaxRouteFrags == 4

IntentPool ==
    {<<"CHWI", "SO">>, <<"MI", "TING">>, <<"BYEON", "GYEONG">>, <<"DEUNG", "ROK">>,
     <<"EH", "SEO">>, <<"NON", "MUN">>, <<"YO", "YAK">>, <<"NYU", "SEU">>,
     <<"KA", "TOK">>, <<"x">>, <<" ">>}

TimePool ==
    {<<"2", "0", ":", "3", "0">>, <<"2", "5", ":", "0", "0">>, <<"8", ":", "7", "5">>,
     PM, AM, NIGHT, <<"8", "SI">>, <<"1", "2", "SI">>, <<"2", "5", "SI">>,
     <<"5", "BUN">>, <<"7", "5", "BUN">>, <<" ">>, <<"1">>, <<"x">>}

RoutePool ==
    {<<"a">>, <<"b">>, FROM, <<"EU", "RO">>, <<"KKA", "JI">>, <<" ">>, <<"-", ">">>,
     <<"ARROW">>, <<"LF">>, <<"a", "EH", "SEO">>, <<"b", "KKA", "JI">>,
     <<"c", "EH", "SEO">>, <<"d", "EU", "RO">>}

NoCall ==
    /\ plan = None /\ parsed = None
    /\ intent = None /\ hhmm = None /\ route = None
    /\ validation = None /\ rendering = None

InitIntent ==
    /\ goal \in TextsOf(IntentPool, MaxIntentFrags)
    /\ available_tools = {} /\ strict_available_tools = TRUE
    /\ enabled_tools = {}
    /\ NoCall

InitTime ==
    /\ goal \in TextsOf(TimePool, MaxTimeFrags)
    /\ available_tools = {} /\ strict_available_tools = TRUE
    /\ enabled_tools = {}
    /\ NoCall

InitRoute ==
    /\ goal \in TextsOf(RoutePool, MaxRouteFrags)
    /\ available_tools = {} /\ strict_available_tools = TRUE
    /\ enabled_tools = {}
    /\ NoCall

ClassifyIntent ==
    /\ intent = None
    /\ intent' = Some(_classify_intent(goal))
    /\ UNCHANGED <<goal, available_tools, strict_available_tools, plan, parsed, hhmm, route,
                   enabled_tools, validation, rendering>>

InferHhmm ==
    /\ hhmm = None
    /\ hhmm' = Some(_infer_hhmm(goal))
    /\ UNCHANGED <<goal, available_tools, strict_available_tools, plan, parsed, intent, route,
                   enabled_tools, validation, rendering>>

InferRoute ==
    /\ route = None
    /\ route' = Some(_infer_route(goal))
    /\ UNCHANGED <<goal, available_tools, strict_available_tools, plan, parsed, intent, hhmm,
                   enabled_tools, validation, rendering>>

ParseGoal ==
    /\ parsed = None
    /\ parsed' = Some(parse_goal(goal))
    /\ UNCHANGED <<goal, available_tools, strict_available_tools, plan, intent, hhmm, route,
                   enabled_tools, validation, rendering>>

NextIntent == ClassifyIntent

NextTime == InferHhmm

NextRoute == InferRoute \/ ParseGoal

SpecIntent == InitIntent /\ [][NextIntent]_vars

SpecTime == InitTime /\ [][NextTime]_vars

SpecRoute == InitRoute /\ [][NextRoute]_vars

\* the uuid4 prefixes a call may draw
PlanIds == {"plan-0a", "plan-1b"}

Tools == {CALENDAR_READ, CALENDAR_CREATE, MAP_ROUTE, PAPER_SEARCH, PAPER_SUMMARIZE,
          EMAIL_SEND, NEWS_SEARCH, NEWS_SUMMARIZE, KAKAO_SEND}

MaxAvail == 3

\* the available_tools lists of at most MaxAvail distinct tools
AvailSets == {a \in SUBSET Tools : Cardinality(a) <= MaxAvail}

\* a goal is an intent clause followed by a clause of slots
IntentClauses ==
    {<<"PAN", "GYO", "EH", "SEO", " ", "GANG", "NAM", "EU", "RO">>,
     <<"a", " ", "-", ">", " ", "b">>,
     <<"GA", "NEUN", " ", "GIL">>,
     <<"x", "EH", "SEO", " ", "EU", "RO">>,
     <<"IL", "JEONG", " ", "JAB", "AH", "JWO">>,
     <<"MI", "TING", " ", "BYEON", "GYEONG">>,
     <<"MI", "TING", " ", "CHWI", "SO", "HAE", "JWO">>,
     <<"NON", "MUN", " ", "GEOM", "SAEK">>,
     <<"NYU", "SEU", " ", "YO", "YAK", " ", "KA", "TOK">>,
     <<"x">>}

SlotClauses ==
    {<<>>,
     <<" ", "OH", "NEUL", " ", "2", "0", ":", "0", "0", " ", "GA", "NEUN", " ", "GIL">>,
     <<" ", "2", "5", ":", "0", "0">>,
     <<" ", "'", "TIM", "MI", "TING", "'">>,
     <<" ", "NAE", "IL", " ", "OH", "HU", " ", "8", "SI", " ", "'", "TIM", "MI", "TING", "'">>,
     <<" ", "2", "0", ":", "3", "0", " ", "JE", "MOK", ":", " ", "x">>,
     <<" ", "a", "@", "b", ".", "c", "o">>,
     <<" ", "OH", "NEUL", " ", "2", "0", ":", "0", "0", " ", "a", "@", "b", ".", "c", "o">>}

PlanGoals == {i \o c : i \in IntentClauses, c \in SlotClauses}

Init ==
    /\ goal \in PlanGoals
    /\ available_tools \in AvailSets
    /\ strict_available_tools \in BOOLEAN
    /\ enabled_tools = {}
    /\ NoCall

CreatePlan ==
    /\ plan = None
    /\ \E id \in PlanIds :
          plan' = Some(create_plan(goal, available_tools, strict_available_tools, id))
    /\ UNCHANGED <<goal, available_tools, strict_available_tools, parsed, intent,
                   hhmm, route, enabled_tools, validation, rendering>>

Next == CreatePlan

Spec == Init /\ [][Next]_vars

(***************************************************************************)
(* 4) Tool layer (src/src/main.py): tb_plan_create makes the plan of a     *)
(* request, and tb_plan_validate and tb_plan_render_prompt judge it        *)
(* against the list of enabled tools they are given.                       *)
(***************************************************************************)
\* the tool names in the order of Python's str comparison
SortedTools ==
    <<CALENDAR_CREATE, CALENDAR_READ, EMAIL_SEND, KAKAO_SEND, MAP_ROUTE,
      NEWS_SEARCH, NEWS_SUMMARIZE, PAPER_SEARCH, PAPER_SUMMARIZE>>

\* sorted(S) for a set S of tool names
sorted(S) == SelectSeq(SortedTools, LAMBDA t : t \in S)

\* the set of [s.tool_name for s in plan.steps]
Used(plan_) == {plan_.steps[k].tool_name : k \in 1..Len(plan_.steps)}

\* the slip of never asking for strict mode
tb_plan_create_NeverStrict(goal_, avail, plan_id) ==
    [plan |-> create_plan(goal_, avail, FALSE, plan_id)]

\* strict = bool(available_tools)
tb_plan_create(goal_, avail, plan_id) ==
    [plan |-> create_plan(goal_, avail, avail # {}, plan_id)]

ISSUE_NO_AVAILABLE_TOOLS == "available_tools is empty: missing tools judged conservatively"

ISSUE_MISSING == "missing (or unverified) tools"

ISSUE_NO_STEPS == "plan.steps is empty: nothing to execute"

\* an issue text and the tool names joined into it
Issue(text, tools) == <<text, tools>>

tb_plan_validate(plan_, avail) ==
    LET missing == sorted({t \in Used(plan_) : avail = {} \/ t \notin avail})
    IN  [ok |-> Len(missing) = 0 /\ plan_.steps # <<>> /\ avail # {},
         issues |->
             (IF avail = {} THEN <<Issue(ISSUE_NO_AVAILABLE_TOOLS, <<>>)>> ELSE <<>>)
             \o (IF missing # <<>> THEN <<Issue(ISSUE_MISSING, missing)>> ELSE <<>>)
             \o (IF plan_.steps = <<>> THEN <<Issue(ISSUE_NO_STEPS, <<>>)>> ELSE <<>>),
         missing_tools |-> missing]

\* tool_name.endswith((".create", ".write", ".update", ".delete", ".send"))
_is_write_tool(tool_name) ==
    /\ Len(tool_name) >= 2
    /\ tool_name[Len(tool_name)] \in {"create", "write", "update", "delete", "send"}

\* steps_text: the number, tool and args of each step, or the placeholder
\* (create_plan sets on_fail on no step, so no line carries one)
StepsText(steps) ==
    IF steps # <<>>
    THEN [k \in 1..Len(steps) |-> <<k, steps[k].tool_name, steps[k].args>>]
    ELSE <<"(no steps)">>

\* confirm_text: sorted(confirm_set), or the placeholder.  "W" sorts before
\* every lower-case tool name, and the confirmations sort by their tool.
ConfirmText(required_confirmations, write_tools) ==
    LET confirmed == {required_confirmations[k][1] : k \in 1..Len(required_confirmations)}
        detected == IF write_tools # <<>>
                    THEN <<<<"Write-like tools detected", write_tools>>>> ELSE <<>>
        entries == [k \in 1..Len(sorted(confirmed)) |-> Confirmation(sorted(confirmed)[k])]
    IN  IF detected \o entries # <<>> THEN detected \o entries ELSE <<"(none)">>

\* the parts the prompt template is filled with
RenderPrompt(plan_, avail, used_unique, missing) ==
    [goal |-> plan_.intent,
     available |-> IF avail # {} THEN sorted(avail) ELSE <<"(unknown/empty)">>,
     steps |-> StepsText(plan_.steps),
     confirmations |-> ConfirmText(plan_.required_confirmations,
                                   SelectSeq(used_unique, _is_write_tool)),
     missing |-> IF missing # <<>> THEN missing ELSE <<"(none)">>,
     execution_hint |-> plan_.execution_hint]

\* the verdict for the sorted tools used_unique of the plan's steps
RenderVerdict(plan_, avail, used_unique, missing) ==
    [ok |-> Len(missing) = 0 /\ plan_.steps # <<>> /\ avail # {},
     missing_tools |-> missing,
     prompt |-> RenderPrompt(plan_, avail, used_unique, missing)]

\* missing: every used tool without a list, else the used tools not in it
RenderMissing(avail, used_unique) ==
    IF avail = {} THEN used_unique
    ELSE sorted({used_unique[k] :
                    k \in {j \in 1..Len(used_unique) : used_unique[j] \notin avail}})

RenderUsed(plan_, avail, used_unique) ==
    RenderVerdict(plan_, avail, used_unique, RenderMissing(avail, used_unique))

tb_plan_render_prompt(plan_, avail) == RenderUsed(plan_, avail, sorted(Used(plan_)))

\* the lists a client passes to validate and render: the one it planned
\* with, none, or another one
EnabledChoices(avail) == {avail, {}, {CALENDAR_READ}}

InitTools ==
    /\ goal \in PlanGoals
    /\ available_tools \in AvailSets
    /\ strict_available_tools = TRUE
    /\ enabled_tools \in EnabledChoices(available_tools)
    /\ NoCall

TbPlanCreate ==
    /\ plan = None
    /\ \E id \in PlanIds : plan' = Some(tb_plan_create(goal, available_tools, id).plan)
    /\ UNCHANGED <<goal, available_tools, strict_available_tools, parsed, intent,
                   hhmm, route, enabled_tools, validation, rendering>>

TbPlanValidate ==
    /\ plan # None /\ validation = None
    /\ validation' = Some(tb_plan_validate(Get(plan), enabled_tools))
    /\ UNCHANGED <<goal, available_tools, strict_available_tools, plan, parsed,
                   intent, hhmm, route, enabled_tools, rendering>>

TbPlanRenderPrompt ==
    /\ plan # None /\ rendering = None
    /\ rendering' = Some(tb_plan_render_prompt(Get(plan), enabled_tools))
    /\ UNCHANGED <<goal, available_tools, strict_available_tools, plan, parsed,
                   intent, hhmm, route, enabled_tools, validation>>

NextTools == TbPlanCreate \/ TbPlanValidate \/ TbPlanRenderPrompt

SpecTools == InitTools /\ [][NextTools]_vars

(***************************************************************************)
(* Properties of create_plan                                               *)
(***************************************************************************)
ToolNames(steps) == [k \in 1..Len(steps) |-> steps[k].tool_name]

\* a tool passes the admission policy of the request in the current state
Admitted(t) == ~(strict_available_tools /\ available_tools # {}) \/ t \in available_tools

Filtering == strict_available_tools /\ available_tools # {}

PaperChain == <<PAPER_SEARCH, PAPER_SUMMARIZE, EMAIL_SEND>>

NewsChain == <<NEWS_SEARCH, NEWS_SUMMARIZE, KAKAO_SEND>>

\* the tools of the intent's template whose required slots the goal gives
CandidateTools(g) ==
    LET d == parse_goal(g)
        t == d.intent_type
    IN  IF t = "route" /\ Truthy(d.origin) /\ Truthy(d.destination)
        THEN <<CALENDAR_READ, MAP_ROUTE>>
        ELSE IF t = "schedule_create" /\ Truthy(d.title) /\ Truthy(d.time_hhmm)
        THEN <<CALENDAR_READ, CALENDAR_CREATE>>
        ELSE IF t = "paper_search_summarize_email" /\ Truthy(d.email) THEN PaperChain
        ELSE IF t = "news_analyze_kakao_send" THEN NewsChain
        ELSE <<>>

\* spec scenario A, "PANGYO-eseo GANGNAM-euro oneul 20:00 ganeun gil"
ScenarioAGoal ==
    <<"PAN", "GYO", "EH", "SEO", " ", "GANG", "NAM", "EU", "RO", " ", "OH", "NEUL",
      " ", "2", "0", ":", "0", "0", " ", "GA", "NEUN", " ", "GIL">>

\* spec scenario C, "miting chwiso-haejwo"
ScenarioCGoal == <<"MI", "TING", " ", "CHWI", "SO", "HAE", "JWO">>

\* C1: the steps of a returned Plan carry the ids step-1, step-2, ..., step-N
\* in list order, also when the optional first step was filtered out.
C1_StepIdsContiguous ==
    plan # None =>
        \A k \in 1..Len(Get(plan).steps) : Get(plan).steps[k].step_id = <<"step-", k>>

\* a plan whose optional calendar.read was filtered out and whose only step is map.route
C1_Witness ==
    /\ plan # None
    /\ Filtering /\ CALENDAR_READ \notin available_tools
    /\ ToolNames(Get(plan).steps) = <<MAP_ROUTE>>

\* the steps of a plan whose tool name ends in a write-like suffix
WriteLikeSteps(steps) ==
    SelectSeq(steps, LAMBDA st :
        st.tool_name[Len(st.tool_name)] \in {"create", "write", "update", "delete", "send"})

\* C2: required_confirmations has exactly one entry per write-like step, in
\* step order, each naming its step's tool; other steps contribute none.
C2_OneConfirmationPerWriteStep ==
    plan # None =>
        LET w == WriteLikeSteps(Get(plan).steps)
            rc == Get(plan).required_confirmations
        IN  /\ Len(rc) = Len(w)
            /\ \A k \in 1..Len(w) : rc[k][1] = w[k].tool_name

\* a plan with two read steps and a send step, and one confirmation
C2_Witness ==
    /\ plan # None
    /\ ToolNames(Get(plan).steps) = PaperChain
    /\ Len(Get(plan).required_confirmations) = 1

\* C3: under strict mode with a non-empty available_tools every step's tool is
\* a member of it (scenario D: only calendar.read is left of the route plan);
\* in every other case the plan holds every candidate tool of the template.
C3_StrictFilter ==
    plan # None =>
        LET names == ToolNames(Get(plan).steps)
        IN  /\ Filtering => \A k \in 1..Len(names) : names[k] \in available_tools
            /\ (Filtering /\ goal = ScenarioAGoal /\ available_tools = {CALENDAR_READ})
                  => names = <<CALENDAR_READ>>
            /\ ~Filtering => names = CandidateTools(goal)

\* scenario D
C3_Witness ==
    /\ plan # None
    /\ goal = ScenarioAGoal /\ strict_available_tools /\ available_tools = {CALENDAR_READ}
    /\ Len(Get(plan).steps) = 1

\* what two plans of one request must share: everything but plan_id
Content(p) ==
    <<p.intent, p.steps, p.assumptions, p.required_confirmations, p.execution_hint>>

\* C4: with an empty available_tools the plan made under
\* strict_available_tools=True equals, plan_id aside, the plan the same goal
\* gets under strict_available_tools=False.
C4_EmptyIsPermissive ==
    (plan # None /\ strict_available_tools /\ available_tools = {}) =>
        \A id \in PlanIds :
            Content(Get(plan)) = Content(create_plan(goal, {}, FALSE, id))

\* a strict plan with no available_tools that does hold steps
C4_Witness ==
    /\ plan # None /\ strict_available_tools /\ available_tools = {}
    /\ ToolNames(Get(plan).steps) = <<CALENDAR_READ, MAP_ROUTE>>

\* the tools of the classified intent's template
TemplateTools(t) ==
    IF t = "route" THEN <<CALENDAR_READ, MAP_ROUTE>>
    ELSE IF t = "schedule_create" THEN <<CALENDAR_READ, CALENDAR_CREATE>>
    ELSE IF t = "paper_search_summarize_email" THEN PaperChain
    ELSE IF t = "news_analyze_kakao_send" THEN NewsChain
    ELSE <<>>

\* the entries a plan gets whatever happened to its steps: they describe no
\* suppressed step
NotAboutSuppression ==
    {MSG_CONFIRM_POLICY, MSG_NO_AVAILABLE_TOOLS, MSG_PAPER_QUERY, MSG_NEWS_TOPIC}

\* C5: whenever a step or chain of the template is suppressed (a slot is
\* missing, a tool is disallowed, or the intent is unknown) the assumptions
\* hold an entry for that condition, beyond the entries every plan gets.
C5_DegradedRecorded ==
    plan # None =>
        LET t == _classify_intent(goal)
            tools == TemplateTools(t)
            suppressed == t = "unknown" \/ Len(Get(plan).steps) < Len(tools)
            a == Get(plan).assumptions
        IN  suppressed => \E k \in 1..Len(a) : a[k] \notin NotAboutSuppression

\* C7: a schedule_update or schedule_cancel goal gets no steps and no
\* confirmations, and an assumption asking for the event reference.
C7_NoStepsForUpdateCancel ==
    plan # None =>
        LET t == _classify_intent(goal)
            a == Get(plan).assumptions
            asked == IF t = "schedule_update" THEN "schedule_update needs event_ref and changes"
                     ELSE "schedule_cancel needs event_ref or title"
        IN  t \in {"schedule_update", "schedule_cancel"} =>
                /\ Get(plan).steps = <<>>
                /\ Get(plan).required_confirmations = <<>>
                /\ \E k \in 1..Len(a) : a[k] = asked

\* scenario C: the cancel goal with no available_tools
C7_Witness ==
    /\ plan # None
    /\ goal = ScenarioCGoal /\ available_tools = {}
    /\ Get(plan).steps = <<>>

\* C8: the paper and the news chain are emitted whole or not at all, and only
\* with every tool of the chain admitted (and, for the paper chain, an e-mail
\* address in the goal); the news chain ends in kakao.send to "me".
C8_ChainsAllOrNothing ==
    plan # None =>
        LET t == _classify_intent(goal)
            steps == Get(plan).steps
            names == ToolNames(steps)
        IN  /\ t = "paper_search_summarize_email" =>
                /\ names = <<>> \/ names = PaperChain
                /\ names = PaperChain =>
                      /\ Truthy(_infer_email(goal))
                      /\ \A k \in 1..3 : Admitted(PaperChain[k])
            /\ t = "news_analyze_kakao_send" =>
                /\ names = <<>> \/ names = NewsChain
                /\ names = NewsChain =>
                      /\ steps[3].args = [target |-> "me"]
                      /\ \A k \in 1..3 : Admitted(NewsChain[k])

\* a news goal whose chain is suppressed because one of its three tools is not available
C8_Witness ==
    /\ plan # None
    /\ _classify_intent(goal) = "news_analyze_kakao_send"
    /\ strict_available_tools /\ available_tools = {NEWS_SEARCH, NEWS_SUMMARIZE}
    /\ Get(plan).steps = <<>>

(***************************************************************************)
(* Properties of the classifier and the extractors                         *)
(***************************************************************************)
IntentTags == <<"schedule_cancel", "schedule_update", "schedule_create", "route",
                "paper_search_summarize_email", "news_analyze_kakao_send">>

\* which rules the goal satisfies, in the priority order of IntentTags
Satisfied(g) == <<IsCancel(g), IsUpdate(g), IsCreate(g), IsRoute(g), IsPaper(g), IsNews(g)>>

\* C6: the classifier returns the tag of the first satisfied rule in the
\* priority order, unknown when none is, and a schedule tag only for a goal
\* that holds an action keyword and a schedule noun.
C6_FirstRuleWins ==
    intent # None =>
        LET hits == {k \in 1..6 : Satisfied(goal)[k]}
            tag == Get(intent)
        IN  /\ tag = IF hits = {} THEN "unknown" ELSE IntentTags[Min(hits)]
            /\ tag = "schedule_cancel" =>
                  ContainsAny(goal, CancelWords) /\ ContainsAny(goal, ScheduleNouns)
            /\ tag = "schedule_update" =>
                  ContainsAny(goal, UpdateWords) /\ ContainsAny(goal, ScheduleNouns)
            /\ tag = "schedule_create" =>
                  ContainsAny(goal, CreateWords) /\ ContainsAny(goal, ScheduleNouns)

\* a goal that satisfies the cancel, the update and the route rule is a cancel
C6_Witness ==
    /\ intent = Some("schedule_cancel")
    /\ IsUpdate(goal) /\ IsRoute(goal)

\* t is a zero-padded HH:MM with HH <= 23 and MM <= 59
WellFormedHhmm(t) ==
    /\ Len(t) = 5
    /\ t[3] = ":"
    /\ \A k \in {1, 2, 4, 5} : t[k] \in Digits
    /\ ToInt(SubSeq(t, 1, 2)) <= 23
    /\ ToInt(SubSeq(t, 4, 5)) <= 59

\* C9: the time extractor returns nothing or a zero-padded HH:MM with
\* HH <= 23 and MM <= 59; a goal whose only candidate is a clock time out of
\* that range gets nothing.
C9_TimeInRange ==
    hhmm # None =>
        LET g == Strip(goal)
            c == ClockSearch(g)
            out == Get(hhmm)
        IN  /\ out # None => WellFormedHhmm(Get(out))
            /\ ( /\ c # None /\ (Get(c)[1] > 23 \/ Get(c)[2] > 59)
                 /\ MarkedHourSearch(g, {AM, PM}) = None
                 /\ MarkedHourSearch(g, {EVENING, NIGHT}) = None ) => out = None

\* a clock time with minute 75 was found and rejected, and a later PM hour was returned
C9_Witness ==
    /\ hhmm # None /\ Get(hhmm) # None
    /\ ClockSearch(Strip(goal)) # None
    /\ Get(ClockSearch(Strip(goal)))[2] > 59
    /\ Get(Get(hhmm)) = <<"2", "0", ":", "0", "0">>

\* origin and destination are both absent or both non-empty text
WholeRoute(o, d) == (o = None /\ d = None) \/ (Truthy(o) /\ Truthy(d))

\* C10: _infer_route and parse_goal return origin and destination both
\* absent or both non-empty.
C10_NoHalfRoute ==
    /\ route # None => WholeRoute(Get(route)[1], Get(route)[2])
    /\ parsed # None => WholeRoute(Get(parsed).origin, Get(parsed).destination)

(***************************************************************************)
(* Properties of the tool layer                                            *)
(***************************************************************************)
\* the elements of a sequence
Elements(seq) == {seq[k] : k \in 1..Len(seq)}

\* C11: a plan made by tb_plan_create with a non-empty list and validated
\* against that same list has no missing tool, and is ok exactly when it has
\* a step; validated against no list, every tool of its steps is missing and
\* it is not ok; tb_plan_render_prompt returns the ok and the missing_tools
\* that tb_plan_validate returns for the same plan and list.
C11_CreateThenValidate ==
    /\ (validation # None /\ available_tools # {} /\ enabled_tools = available_tools) =>
           /\ Get(validation).missing_tools = <<>>
           /\ Get(validation).ok = (Get(plan).steps # <<>>)
    /\ (validation # None /\ enabled_tools = {}) =>
           /\ Elements(Get(validation).missing_tools) = Elements(ToolNames(Get(plan).steps))
           /\ Get(validation).ok = FALSE
    /\ (validation # None /\ rendering # None) =>
           /\ Get(rendering).ok = Get(validation).ok
           /\ Get(rendering).missing_tools = Get(validation).missing_tools

\* a plan of two steps made with a list that holds both of its tools, then
\* validated and rendered against that list: ok
C11_Witness ==
    /\ validation # None /\ rendering # None
    /\ enabled_tools = available_tools
    /\ Cardinality(available_tools) = 3
    /\ ToolNames(Get(plan).steps) = <<CALENDAR_READ, MAP_ROUTE>>
    /\ Get(validation).ok /\ Get(rendering).ok

====
